---------------------------- MODULE Spec2Model ----------------------------
(***************************************************************************)
(* A model of the Bloom filter of src/main.rs and of the evaluation        *)
(* harness that main runs on a corpus file.                                *)
(*                                                                         *)
(* Strings are sequences of characters.  f64 values are fixed-point        *)
(* records: [k |-> "fin", v |-> value * Scale], or one of the special      *)
(* values "nan", "pinf", "ninf" (v = 0).  usize::MAX is written UsizeMax.  *)
(***************************************************************************)
EXTENDS Integers, Sequences, FiniteSets, TLC

(***************************************************************************)
(* Bounds of the model.                                                    *)
(***************************************************************************)
MaxItemCount == 3      \* item_count / capacity ranges over 0..MaxItemCount
MaxLines == 2          \* a corpus has at most MaxLines lines
MaxKey == 1            \* the hasher's compression function is one of 0..MaxKey
HashSpace == 7         \* hash values range over 0..HashSpace-1

\* false_positive_prob, in tenths: -0.5, 0.0, 0.1, 0.3, 0.5, 0.9, 1.0, 1.5
ProbTenths == {-5, 0, 1, 3, 5, 9, 10, 15}

\* the items handed to add and contains by a direct user of the filter
Items == {<<"a">>, <<"b">>, <<"a", "0">>}

\* the raw (untrimmed) lines a corpus file is made of
RawLines == {<<>>, <<" ", "a", " ">>, <<"a", "0">>, <<"e'", "e'">>,
             <<"a", "b", "c">>}

RECURSIVE SeqsUpTo(_, _)
SeqsUpTo(S, n) ==
    IF n = 0 THEN {<<>>}
    ELSE LET shorter == SeqsUpTo(S, n - 1)
         IN  shorter \cup {Append(s, x) : s \in {t \in shorter : Len(t) = n - 1}, x \in S}

Corpora == SeqsUpTo(RawLines, MaxLines)

(***************************************************************************)
(* f64 arithmetic, as far as get_size and get_hash_count use it.           *)
(***************************************************************************)
Scale == 10000
UsizeMax == 2147483647

Fin(v) == [k |-> "fin", v |-> v]
NaN == [k |-> "nan", v |-> 0]
PInf == [k |-> "pinf", v |-> 0]
NInf == [k |-> "ninf", v |-> 0]

\* integer division truncating toward zero (b > 0)
TruncDiv(a, b) == IF a >= 0 THEN a \div b ELSE -((-a) \div b)

\* `n as f64`
FromUsize(n) == Fin(n * Scale)

Sign(x) == IF x.k = "pinf" THEN 1
           ELSE IF x.k = "ninf" THEN -1
           ELSE IF x.v > 0 THEN 1 ELSE IF x.v < 0 THEN -1 ELSE 0

\* f64 `*`
FMul(x, y) ==
    IF x.k = "nan" \/ y.k = "nan" THEN NaN
    ELSE IF x.k = "fin" /\ y.k = "fin" THEN Fin(TruncDiv(x.v * y.v, Scale))
    ELSE IF Sign(x) * Sign(y) = 0 THEN NaN
    ELSE IF Sign(x) * Sign(y) > 0 THEN PInf ELSE NInf

\* f64 `/`
FDiv(x, y) ==
    IF x.k = "nan" \/ y.k = "nan" THEN NaN
    ELSE IF x.k = "fin" /\ y.k = "fin"
         THEN IF y.v = 0
              THEN IF x.v = 0 THEN NaN ELSE IF x.v > 0 THEN PInf ELSE NInf
              ELSE IF y.v > 0 THEN Fin(TruncDiv(x.v * Scale, y.v))
                   ELSE Fin(-TruncDiv(x.v * Scale, -y.v))
    ELSE IF x.k = "fin" THEN Fin(0)
    ELSE IF y.k # "fin" THEN NaN
    ELSE IF Sign(x) * Sign(y) < 0 THEN NInf
    ELSE IF Sign(y) = 0 THEN x
    ELSE PInf

\* f64::ln of a probability given in tenths
Ln(p) ==
    IF p < 0 THEN NaN
    ELSE IF p = 0 THEN NInf
    ELSE CASE p = 1 -> Fin(-23026)
           [] p = 3 -> Fin(-12040)
           [] p = 5 -> Fin(-6931)
           [] p = 9 -> Fin(-1054)
           [] p = 10 -> Fin(0)
           [] p = 15 -> Fin(4055)

\* (2 as f64).ln()
Ln2 == Fin(6931)

VARIABLES
    fptoui,               \* what the build's float-to-usize cast gives out of range
    sipkey,               \* which compression function the hasher uses
    item_count,           \* argument of new
    false_positive_prob,  \* argument of new, in tenths
    state,                \* "start", "ready" or "panicked"
    bit_vec,              \* BloomFilter.bit_vec
    bit_vec_size,         \* BloomFilter.bit_vec_size
    hash_count,           \* BloomFilter.hash_count
    added,                \* the items whose add has returned
    ret,                  \* the last call made and what it returned
    corpus,               \* the lines of the corpus file
    pc,                   \* where the harness is
    pos,                  \* the next line, or the next synthetic suffix
    longest_string,
    true_positives,
    false_negatives,
    false_positives,
    true_negatives,
    probed                \* the synthetic strings handed to contains so far

filterVars == <<bit_vec, bit_vec_size, hash_count>>
harnessVars == <<corpus, pc, pos, longest_string, true_positives,
                 false_negatives, false_positives, true_negatives, probed>>
vars == <<fptoui, sipkey, item_count, false_positive_prob, state, bit_vec,
          bit_vec_size, hash_count, added, ret, corpus, pc, pos,
          longest_string, true_positives, false_negatives, false_positives,
          true_negatives, probed>>

\* The float-to-usize casts a build can implement: inside the range the
\* value is truncated; for NaN, for +infinity and for values <= -1 the
\* result is 0 or usize::MAX (Rust 1.45 and later saturate: 0, MAX, 0).
CastBuilds == [{"nan", "pinf", "neg"} -> {0, UsizeMax}]

\* `x as usize`
AsUsize(x) ==
    IF x.k = "nan" THEN fptoui["nan"]
    ELSE IF x.k = "pinf" THEN fptoui["pinf"]
    ELSE IF x.k = "ninf" THEN fptoui["neg"]
    ELSE IF x.v <= -Scale THEN fptoui["neg"]
    ELSE IF x.v < 0 THEN 0
    ELSE x.v \div Scale



(***************************************************************************)
(* BloomFilter                                                             *)
(***************************************************************************)
\* get_size(n, p)
get_size(n, p) ==
    AsUsize(FMul(FDiv(FMul(FromUsize(n), Ln(p)), FMul(Ln2, Ln2)), Fin(-Scale)))

Max(a, b) == IF a >= b THEN a ELSE b

\* get_hash_count without the floor of 1
get_hash_count_unfloored(m, n) ==
    AsUsize(FMul(FDiv(FromUsize(m), FromUsize(n)), Ln2))

\* get_hash_count rounding to the nearest integer instead of truncating
get_hash_count_rounded(m, n) ==
    LET x == FMul(FDiv(FromUsize(m), FromUsize(n)), Ln2)
    IN  Max(AsUsize(IF x.k = "fin" THEN Fin(x.v + Scale \div 2) ELSE x), 1)

\* get_hash_count(m, n)
get_hash_count(m, n) ==
    Max(AsUsize(FMul(FDiv(FromUsize(m), FromUsize(n)), Ln2)), 1)

\* The UTF-8 bytes of a character.
Utf8(c) ==
    CASE c = "a" -> <<97>>
      [] c = "b" -> <<98>>
      [] c = "c" -> <<99>>
      [] c = " " -> <<32>>
      [] c = "e'" -> <<195, 169>>
      [] c = "0" -> <<48>>
      [] c = "1" -> <<49>>
      [] c = "2" -> <<50>>
      [] c = "3" -> <<51>>
      [] c = "4" -> <<52>>
      [] c = "5" -> <<53>>
      [] c = "6" -> <<54>>
      [] c = "7" -> <<55>>
      [] c = "8" -> <<56>>
      [] c = "9" -> <<57>>

RECURSIVE Bytes(_)
Bytes(t) == IF t = <<>> THEN <<>> ELSE Utf8(Head(t)) \o Bytes(Tail(t))

\* String::len: the length in bytes
StrLen(t) == Len(Bytes(t))

\* DefaultHasher::new(): the hasher's initial state.  The SipHash rounds
\* are not computed; the hasher is one of a family of compression
\* functions over 0..HashSpace-1, selected by sipkey.
DefaultHasherNew == sipkey % HashSpace

\* Hasher::write_u8
write_u8(s, b) == (s * (2 * sipkey + 3) + b + 1) % HashSpace

RECURSIVE write(_, _)
write(s, bytes) ==
    IF bytes = <<>> THEN s ELSE write(write_u8(s, Head(bytes)), Tail(bytes))

\* Hasher::write_usize
write_usize(s, i) == write_u8(s, i % 256)

\* <String as Hash>::hash: the bytes, then 0xff
StrHash(t, s) == write_u8(write(s, Bytes(t)), 255)

\* BloomFilter::hash(i, t)
hash(i, t) == StrHash(t, write_usize(DefaultHasherNew, i))

\* from_elem allocating one flag too many
from_elem_one_more(nbits) == [j \in 1..(nbits + 1) |-> FALSE]

\* BitVec::from_elem(nbits, false)
from_elem(nbits) == [j \in 1..nbits |-> FALSE]

\* set clearing every other flag
set_only(bits, index) == [j \in DOMAIN bits |-> j = index + 1]

\* set inverting the flag
set_flip(bits, index) == [bits EXCEPT ![index + 1] = ~bits[index + 1]]

\* BitVec::set(index, true); the caller has checked index < len
set(bits, index) == [bits EXCEPT ![index + 1] = TRUE]

\* The loop of add from probe i on: the bits it leaves, and whether it
\* panicked (remainder by zero, or an index outside the bit vector).
RECURSIVE AddLoop(_, _, _)
AddLoop(bits, i, item) ==
    IF i >= hash_count THEN [bits |-> bits, panic |-> FALSE]
    ELSE IF bit_vec_size = 0 THEN [bits |-> bits, panic |-> TRUE]
    ELSE LET index == hash(i, item) % bit_vec_size
         IN  IF index >= Len(bits) THEN [bits |-> bits, panic |-> TRUE]
             ELSE AddLoop(set(bits, index), i + 1, item)

\* add starting its loop at probe 1
add_from_one(bits, item) == AddLoop(bits, 1, item)

\* BloomFilter::add
add(bits, item) == AddLoop(bits, 0, item)

\* The loop of contains from probe i on: "true", "false" or "panic".
RECURSIVE ContainsLoop(_, _, _)
ContainsLoop(bits, i, item) ==
    IF i >= hash_count THEN "true"
    ELSE IF bit_vec_size = 0 THEN "panic"
    ELSE LET index == hash(i, item) % bit_vec_size
         IN  IF index >= Len(bits) THEN "panic"
             ELSE IF bits[index + 1] = FALSE THEN "false"
             ELSE ContainsLoop(bits, i + 1, item)

\* The number of probes the loop of contains makes from probe i on: the
\* iterations that reach the test of a flag.
RECURSIVE ContainsProbes(_, _, _)
ContainsProbes(bits, i, item) ==
    IF i >= hash_count THEN 0
    ELSE IF bit_vec_size = 0 THEN 0
    ELSE LET index == hash(i, item) % bit_vec_size
         IN  IF index >= Len(bits) THEN 0
             ELSE IF bits[index + 1] = FALSE THEN 1
             ELSE 1 + ContainsProbes(bits, i + 1, item)

\* contains starting its loop at probe 1
contains_from_one(bits, item) == ContainsLoop(bits, 1, item)

\* BloomFilter::contains
contains(bits, item) == ContainsLoop(bits, 0, item)

NoCall == [op |-> "none", item |-> <<>>, val |-> "none"]

\* BloomFilter::new(item_count, false_positive_prob).  The struct literal
\* evaluates get_size a second time for the field, then get_hash_count,
\* then allocates; an allocation of usize::MAX bits panics (capacity
\* overflow), and nothing computed before it is observable then.
new(n, p) ==
    LET size == get_size(n, p)
    IN  IF size = UsizeMax
        THEN /\ state' = "panicked"
             /\ UNCHANGED filterVars
        ELSE /\ state' = "ready"
             /\ bit_vec_size' = get_size(n, p)
             /\ hash_count' = get_hash_count(size, n)
             /\ bit_vec' = from_elem(size)

(***************************************************************************)
(* A user of the filter: new, then add and contains in any order.          *)
(***************************************************************************)
TypeInit ==
    /\ fptoui \in CastBuilds
    /\ sipkey \in 0..MaxKey
    /\ item_count \in 0..MaxItemCount
    /\ false_positive_prob \in ProbTenths
    /\ state = "start"
    /\ bit_vec = <<>>
    /\ bit_vec_size = 0
    /\ hash_count = 0
    /\ added = {}
    /\ ret = NoCall
    /\ pc = "main"
    /\ pos = 0
    /\ longest_string = <<>>
    /\ true_positives = 0
    /\ false_negatives = 0
    /\ false_positives = 0
    /\ true_negatives = 0
    /\ probed = <<>>

Init ==
    /\ TypeInit
    /\ corpus = <<>>

CallNew ==
    /\ state = "start"
    /\ new(item_count, false_positive_prob)
    /\ ret' = [op |-> "new", item |-> <<>>,
               val |-> IF state' = "panicked" THEN "panic" ELSE "filter"]
    /\ UNCHANGED <<fptoui, sipkey, item_count, false_positive_prob, added>>
    /\ UNCHANGED harnessVars

CallAdd(item) ==
    /\ state = "ready"
    /\ LET r == add(bit_vec, item)
       IN  /\ bit_vec' = r.bits
           /\ state' = IF r.panic THEN "panicked" ELSE "ready"
           /\ added' = IF r.panic THEN added ELSE added \cup {item}
           /\ ret' = [op |-> "add", item |-> item,
                      val |-> IF r.panic THEN "panic" ELSE "unit"]
    /\ UNCHANGED <<fptoui, sipkey, item_count, false_positive_prob,
                   bit_vec_size, hash_count>>
    /\ UNCHANGED harnessVars

CallContains(item) ==
    /\ state = "ready"
    /\ LET r == contains(bit_vec, item)
       IN  /\ state' = IF r = "panic" THEN "panicked" ELSE "ready"
           /\ ret' = [op |-> "contains", item |-> item, val |-> r]
    /\ UNCHANGED <<fptoui, sipkey, item_count, false_positive_prob,
                   bit_vec, bit_vec_size, hash_count, added>>
    /\ UNCHANGED harnessVars

Next ==
    \/ CallNew
    \/ \E item \in Items : CallAdd(item)
    \/ \E item \in Items : CallContains(item)

Spec == Init /\ [][Next]_vars

(***************************************************************************)
(* The evaluation harness: main with a corpus path, a capacity and a       *)
(* probability runs filter_from_file and then check_from_file.             *)
(***************************************************************************)
RECURSIVE trim_start(_)
trim_start(s) ==
    IF s # <<>> /\ Head(s) = " " THEN trim_start(Tail(s)) ELSE s

RECURSIVE trim_end(_)
trim_end(s) ==
    IF s # <<>> /\ s[Len(s)] = " " THEN trim_end(SubSeq(s, 1, Len(s) - 1)) ELSE s

\* str::trim
trim(s) == trim_end(trim_start(s))

Digit(d) == <<"0", "1", "2", "3", "4", "5", "6", "7", "8", "9">>[d + 1]

\* usize::to_string
RECURSIVE to_string(_)
to_string(i) ==
    IF i < 10 THEN <<Digit(i)>> ELSE Append(to_string(i \div 10), Digit(i % 10))

\* the item filter_from_file adds for a line of the file
filter_line_untrimmed(raw) == raw

filter_line(raw) == trim(raw)

\* the item check_from_file looks up for a line of the file
check_line(raw) == trim(raw)

\* longer with the comparison reversed
longer_reversed(line, longest) == IF StrLen(line) < StrLen(longest) THEN line ELSE longest

\* the line that check_from_file keeps as longest_string
longer(line, longest) == IF StrLen(line) > StrLen(longest) THEN line ELSE longest

\* the synthetic string of iteration i
synthetic(longest, i) == longest \o to_string(i)

HInit ==
    /\ TypeInit
    /\ corpus \in Corpora

unchangedArgs == <<fptoui, sipkey, item_count, false_positive_prob, corpus>>
counters == <<true_positives, false_negatives, false_positives, true_negatives>>

\* filter_from_file: the construction of the filter
FilterNew ==
    /\ pc = "main"
    /\ state = "start"
    /\ new(item_count, false_positive_prob)
    /\ pc' = IF state' = "panicked" THEN "aborted" ELSE "populate"
    /\ ret' = [op |-> "new", item |-> <<>>,
               val |-> IF state' = "panicked" THEN "panic" ELSE "filter"]
    /\ UNCHANGED <<unchangedArgs, counters, added, pos, longest_string, probed>>

\* filter_from_file: one iteration of the loop over the lines
PopulateLine ==
    /\ pc = "populate"
    /\ pos < Len(corpus)
    /\ LET item == filter_line(corpus[pos + 1])
           r == add(bit_vec, item)
       IN  /\ bit_vec' = r.bits
           /\ state' = IF r.panic THEN "panicked" ELSE "ready"
           /\ pc' = IF r.panic THEN "aborted" ELSE "populate"
           /\ added' = IF r.panic THEN added ELSE added \cup {item}
           /\ ret' = [op |-> "add", item |-> item,
                      val |-> IF r.panic THEN "panic" ELSE "unit"]
    /\ pos' = pos + 1
    /\ UNCHANGED <<unchangedArgs, counters, bit_vec_size, hash_count,
                   longest_string, probed>>

\* filter_from_file returns; check_from_file sets up its counters
CheckStart ==
    /\ pc = "populate"
    /\ pos = Len(corpus)
    /\ pc' = "check"
    /\ pos' = 0
    /\ true_positives' = 0
    /\ false_negatives' = 0
    /\ false_positives' = 0
    /\ true_negatives' = 0
    /\ longest_string' = <<>>
    /\ UNCHANGED <<unchangedArgs, filterVars, state, added, ret, probed>>

\* check_from_file: one iteration of the loop over the lines
CheckLine ==
    /\ pc = "check"
    /\ pos < Len(corpus)
    /\ LET line == check_line(corpus[pos + 1])
           r == contains(bit_vec, line)
       IN  /\ ret' = [op |-> "contains", item |-> line, val |-> r]
           /\ state' = IF r = "panic" THEN "panicked" ELSE state
           /\ pc' = IF r = "panic" THEN "aborted" ELSE "check"
           /\ true_positives' = IF r = "true" THEN true_positives + 1 ELSE true_positives
           /\ false_negatives' = IF r = "false" THEN false_negatives + 1 ELSE false_negatives
           /\ longest_string' = IF r = "panic" THEN longest_string
                                ELSE longer(line, longest_string)
    /\ pos' = pos + 1
    /\ UNCHANGED <<unchangedArgs, filterVars, added, false_positives,
                   true_negatives, probed>>

\* check_from_file: the loop over the lines ends
CheckDone ==
    /\ pc = "check"
    /\ pos = Len(corpus)
    /\ pc' = "probe"
    /\ pos' = 0
    /\ UNCHANGED <<unchangedArgs, filterVars, counters, state, added, ret,
                   longest_string, probed>>

\* check_from_file: one iteration of the loop over 0..filter.bit_vec.len()
ProbeSynthetic ==
    /\ pc = "probe"
    /\ pos < Len(bit_vec)
    /\ LET st == synthetic(longest_string, pos)
           r == contains(bit_vec, st)
       IN  /\ ret' = [op |-> "contains", item |-> st, val |-> r]
           /\ state' = IF r = "panic" THEN "panicked" ELSE state
           /\ pc' = IF r = "panic" THEN "aborted" ELSE "probe"
           /\ false_positives' = IF r = "true" THEN false_positives + 1 ELSE false_positives
           /\ true_negatives' = IF r = "false" THEN true_negatives + 1 ELSE true_negatives
           /\ probed' = Append(probed, st)
    /\ pos' = pos + 1
    /\ UNCHANGED <<unchangedArgs, filterVars, added, true_positives,
                   false_negatives, longest_string>>

\* check_from_file: the four counts and the rate are printed
Report ==
    /\ pc = "probe"
    /\ pos = Len(bit_vec)
    /\ pc' = "report"
    /\ UNCHANGED <<unchangedArgs, filterVars, counters, state, added, ret,
                   pos, longest_string, probed>>

HNext ==
    \/ FilterNew
    \/ PopulateLine
    \/ CheckStart
    \/ CheckLine
    \/ CheckDone
    \/ ProbeSynthetic
    \/ Report

HarnessSpec == HInit /\ [][HNext]_vars

(***************************************************************************)
(* Properties                                                              *)
(***************************************************************************)
ValidProb(p) == p \in {1, 3, 5, 9}
SetFlags(bits) == {j \in DOMAIN bits : bits[j]}

\* C1: no false negatives.  In every state, contains answers true for every
\* item whose add has returned, whatever was added after it, and a
\* contains call on such an item has returned true.
C1_NoFalseNegatives ==
    /\ \A x \in added : contains(bit_vec, x) = "true"
    /\ (ret.op = "contains" /\ ret.item \in added) => ret.val = "true"

C1_Witness ==
    /\ Cardinality(added) >= 2
    /\ ret.op = "contains"
    /\ ret.item \in added
    /\ ret.val = "true"

\* C2: invalid construction is rejected.  When item_count is 0 or
\* false_positive_prob is not strictly between 0 and 1, new ends in an
\* InvalidParameter failure and never returns a filter.
C2_InvalidConstructionRejected ==
    (state # "start" /\ (item_count = 0 \/ ~ValidProb(false_positive_prob)))
        => state = "InvalidParameter"

\* the real number -n * ln(p) / (ln 2)^2, in fixed point
SizeReal(n, p) == FMul(FDiv(FMul(FromUsize(n), Ln(p)), FMul(Ln2, Ln2)), Fin(-Scale))

Ceiling(x) == -((-x.v) \div Scale)

\* C3: for a positive item count and a probability strictly between 0 and
\* 1, the constructed filter's bit_vec_size is the ceiling of
\* -n * ln(p) / (ln 2)^2, and so is at least 1.
C3_SizeIsCeiling ==
    (state = "ready" /\ item_count >= 1 /\ ValidProb(false_positive_prob))
        => /\ bit_vec_size = Ceiling(SizeReal(item_count, false_positive_prob))
           /\ bit_vec_size >= 1

\* C4: bits are monotonic.  No step of new, add or contains changes a flag
\* from true to false.
C4_BitsMonotonic ==
    [][\A j \in DOMAIN bit_vec :
          bit_vec[j] => (j \in DOMAIN bit_vec' /\ bit_vec'[j])]_vars

C4_Witness ==
    /\ ret.op = "add"
    /\ ret.val = "unit"
    /\ Cardinality(added) >= 2
    /\ Cardinality(SetFlags(bit_vec)) >= 2

\* C5: idempotent insertion.  In the state a returned add(x) leaves, a
\* second add(x) returns the same bits, so contains answers the same for
\* every item.
C5_IdempotentAdd ==
    (ret.op = "add" /\ ret.val = "unit")
        => /\ add(bit_vec, ret.item) = [bits |-> bit_vec, panic |-> FALSE]
           /\ \A y \in Items :
                 contains(add(bit_vec, ret.item).bits, y) = contains(bit_vec, y)

C5_Witness ==
    /\ ret.op = "add"
    /\ ret.val = "unit"
    /\ SetFlags(bit_vec) # {}
    /\ \E y \in Items : contains(bit_vec, y) = "false"

\* C6: hash-count floor.  Every filter that new returns has hash_count of
\* at least 1.
C6_HashCountFloor ==
    state = "ready" => hash_count >= 1

\* bit_vec_size / item_count * ln 2 in units of 1 / Scale
ProbesReal == (bit_vec_size * Ln2.v) \div item_count

\* a filter of valid arguments for which the truncated quotient is 0
C6_Witness ==
    /\ state = "ready"
    /\ item_count >= 1
    /\ ValidProb(false_positive_prob)
    /\ bit_vec_size >= 1
    /\ ProbesReal < Scale
    /\ hash_count = 1

\* C7 as stated: hash_count is bit_vec_size / item_count * ln 2 rounded to
\* the nearest integer, with a floor of 1.
C7_HashCountRounded ==
    (state = "ready" /\ item_count >= 1)
        => hash_count = Max(1, (ProbesReal + Scale \div 2) \div Scale)

\* C7, amended: for a positive item count, hash_count is
\* bit_vec_size / item_count * ln 2 truncated toward zero, with a floor
\* of 1.
C7_HashCountTruncated ==
    (state = "ready" /\ item_count >= 1)
        => hash_count = Max(1, ProbesReal \div Scale)

\* a filter for which rounding and truncating differ
C7_Witness ==
    /\ state = "ready"
    /\ item_count >= 1
    /\ hash_count >= 2
    /\ (ProbesReal + Scale \div 2) \div Scale # ProbesReal \div Scale

\* C8: sizing is fixed.  The bit vector of a constructed filter has
\* bit_vec_size flags, and no step taken on a constructed filter changes
\* bit_vec_size, hash_count or the length of the bit vector.
C8_SizingFixed ==
    /\ [](state = "ready" => Len(bit_vec) = bit_vec_size)
    /\ [][state = "ready" =>
             /\ bit_vec_size' = bit_vec_size
             /\ hash_count' = hash_count
             /\ Len(bit_vec') = Len(bit_vec)]_vars

C8_Witness ==
    /\ state = "ready"
    /\ added # {}
    /\ ret.op = "contains"
    /\ bit_vec_size >= 2
    /\ Len(bit_vec) = bit_vec_size

\* C9: the harness counts no false negative.  At the report every line of
\* the corpus has been classified as a true positive.
C9_NoFalseNegativesAtReport ==
    pc = "report" => /\ false_negatives = 0
                     /\ true_positives = Len(corpus)

C9_Witness ==
    /\ pc = "report"
    /\ Len(corpus) >= 2
    /\ Cardinality(added) >= 2
    /\ true_positives >= 2

\* the number of characters of a string
CharCount(t) == Len(t)

Lines == {check_line(corpus[k]) : k \in DOMAIN corpus}

\* l is a longest line of the corpus under the measure len
IsLongest(l, len(_)) ==
    /\ \A line \in Lines : len(line) <= len(l)
    /\ IF Lines = {} THEN l = <<>> ELSE l \in Lines

\* The synthetic phase under the measure len: the strings probed so far
\* are a longest line followed by 0, 1, 2, ..., each is longer than every
\* line and was never added; at the report there are bit_vec_size of them
\* and each was counted as a false positive or a true negative.
SyntheticPhase(len(_)) ==
    /\ pc \in {"probe", "report"} =>
          /\ IsLongest(longest_string, len)
          /\ \A i \in DOMAIN probed :
                /\ probed[i] = longest_string \o to_string(i - 1)
                /\ \A line \in Lines : len(probed[i]) > len(line)
                /\ probed[i] \notin added
                /\ \A j \in DOMAIN probed : probed[j] = probed[i] => j = i
    /\ pc = "report" =>
          /\ Len(probed) = bit_vec_size
          /\ false_positives + true_negatives = bit_vec_size

\* C10 as stated, the longest line and "longer" being by character count:
\* the harness probes bit_vec_size strings, each the longest corpus line
\* followed by 0, 1, 2, ..., each longer than every corpus line and never
\* added, and false_positives + true_negatives = bit_vec_size at the report.
C10_SyntheticByCharCount == SyntheticPhase(CharCount)

\* C10, amended: the same with the length in bytes (String::len) as the
\* measure of the longest line and of "longer".
C10_SyntheticByByteLength == SyntheticPhase(StrLen)

C10_Witness ==
    /\ pc = "report"
    /\ Len(corpus) >= 2
    /\ Len(probed) >= 11
    /\ false_positives >= 1
    /\ true_negatives >= 1
    /\ \E line \in Lines : CharCount(line) > CharCount(longest_string)

\* the probes of item: 0 .. hash_count - 1, none on a filter without flags
Probes == IF bit_vec_size = 0 THEN {} ELSE 0..(hash_count - 1)

\* the flag that probe i of item reads is present and set
ProbeSet(i, item) ==
    LET index == hash(i, item) % bit_vec_size
    IN  index < Len(bit_vec) /\ bit_vec[index + 1]

AllProbesSet(item) == bit_vec_size # 0 /\ \A i \in Probes : ProbeSet(i, item)

UnsetProbes(item) == {i \in Probes : ~ProbeSet(i, item)}

Least(S) == CHOOSE i \in S : \A k \in S : i <= k

\* C11: contains(x) returns true exactly when the flag at every probe
\* index hash(i, x) mod bit_vec_size, i in 0 .. hash_count - 1, is set; it
\* returns false at the first probe whose flag is unset, making no further
\* probe; and a contains call changes no flag.
C11_ContainsCharacterised ==
    /\ [](/\ ret.op = "contains" =>
                (ret.val = "true" <=> AllProbesSet(ret.item))
          /\ state = "ready" =>
                \A x \in Items :
                   /\ contains(bit_vec, x) = "true" <=> AllProbesSet(x)
                   /\ UnsetProbes(x) # {} =>
                         /\ contains(bit_vec, x) = "false"
                         /\ ContainsProbes(bit_vec, 0, x) = Least(UnsetProbes(x)) + 1)
    /\ [][ret'.op = "contains" => bit_vec' = bit_vec]_vars

\* a contains call answered false at its second probe, on a filter with
\* flags set, and another item for which every probe is set
C11_Witness ==
    /\ ret.op = "contains"
    /\ ret.val = "false"
    /\ hash_count >= 2
    /\ Least(UnsetProbes(ret.item)) >= 1
    /\ \E x \in Items : AllProbesSet(x)

\* the flags that the probes of the items of S address
ProbeSlots(S) ==
    IF S = {} THEN {}
    ELSE {(hash(i, y) % bit_vec_size) + 1 : y \in S, i \in 0..(hash_count - 1)}

\* new was given a positive item count and a probability in (0, 1)
ValidArgs == item_count >= 1 /\ ValidProb(false_positive_prob)

\* C12: exact bit characterisation.  In every state of a filter
\* constructed from valid arguments the set flags are exactly the probe
\* indices of the items added; so a freshly constructed filter has no flag
\* set and contains(x) is false for every x; and an add(x) changes no flag
\* other than x's probe indices.
C12_ExactBits ==
    /\ []((state = "ready" /\ ValidArgs) =>
             /\ SetFlags(bit_vec) = ProbeSlots(added)
             /\ added = {} =>
                   /\ SetFlags(bit_vec) = {}
                   /\ \A x \in Items : contains(bit_vec, x) = "false")
    /\ [][(state = "ready" /\ ValidArgs /\ ret'.op = "add") =>
             \A j \in DOMAIN bit_vec :
                bit_vec'[j] # bit_vec[j] => j \in ProbeSlots({ret'.item})]_vars

\* C13: no operation fails on a constructed filter.  For every filter
\* that new returns from valid arguments, bit_vec_size is not zero, every
\* probe index of every item is below the length of the bit vector, and
\* no add or contains call panics.
C13_NoOperationFails ==
    /\ (state = "ready" /\ ValidArgs) =>
          /\ bit_vec_size # 0
          /\ \A x \in Items : \A i \in 0..(hash_count - 1) :
                hash(i, x) % bit_vec_size < Len(bit_vec)
          /\ \A x \in Items : /\ ~add(bit_vec, x).panic
                              /\ contains(bit_vec, x) # "panic"
    /\ (ValidArgs /\ ret.op \in {"add", "contains"}) => ret.val # "panic"

\* add(x) followed, if it returned, by add(y)
AddThen(bits, x, y) ==
    LET r == add(bits, x) IN IF r.panic THEN r ELSE add(r.bits, y)

\* the adds of the items of seq, in order, while none panics
RECURSIVE AddAll(_, _)
AddAll(bits, seq) ==
    IF seq = <<>> THEN [bits |-> bits, panic |-> FALSE]
    ELSE LET r == add(bits, Head(seq))
         IN  IF r.panic THEN r ELSE AddAll(r.bits, Tail(seq))

\* the sequences of adds, one of them possibly repeated, that add exactly S
AddSequences(S) ==
    {seq \in SeqsUpTo(S, Cardinality(S) + 1) : {seq[k] : k \in DOMAIN seq} = S}

\* C14: insertion order does not matter.  From every state of a filter,
\* add(x) then add(y) gives the same result as add(y) then add(x); and the
\* bits of a filter are those that the items added give to the fresh bit
\* vector in any order and with any item repeated.
C14_OrderIndependent ==
    state = "ready" =>
       /\ \A x, y \in Items : AddThen(bit_vec, x, y) = AddThen(bit_vec, y, x)
       /\ \A seq \in AddSequences(added) :
             AddAll([j \in DOMAIN bit_vec |-> FALSE], seq)
                = [bits |-> bit_vec, panic |-> FALSE]

\* three items added, two of them with different probe flags
C14_Witness ==
    /\ state = "ready"
    /\ Cardinality(added) = 3
    /\ ret.op = "add"
    /\ \E x, y \in added : ProbeSlots({x}) # ProbeSlots({y})
    /\ \E x, y \in added : x # y /\ ProbeSlots({x}) \cap ProbeSlots({y}) # {}

=============================================================================
